---- MODULE Spec2Model ----
(***************************************************************************)
(* A model of dataconfig/parsers.py: the classification of the paths of a  *)
(* rule document into nodes, leaves and branches, the interpretation of    *)
(* leaf rules, the synthesis of composite types and the bottom-up fold     *)
(* performed by get_config_t.                                              *)
(*                                                                         *)
(* Python values are tagged records:                                       *)
(*   [kind |-> "none"]                       None                          *)
(*   [kind |-> "str",  s |-> "int"]          a string                      *)
(*   [kind |-> "int",  n |-> 5]              an integer                    *)
(*   [kind |-> "bool", b |-> TRUE]           a boolean                     *)
(*   [kind |-> "seq",  items |-> <<v, ..>>]  a list                        *)
(*   [kind |-> "map",  items |-> <<<<k, v>>, ..>>]  a dict, in key order   *)
(*   [kind |-> "type", ...]                  a type taken from NS.types    *)
(*   [kind |-> "dataconfig", ...]            a type made by make_dataconfig*)
(*   [kind |-> "validator", ...]             a method made by make_validator*)
(* Mapping keys are strings without a dot; a sequence index i is the key   *)
(* str(i), which is also what _path_to_glom_spec turns it into.            *)
(***************************************************************************)
EXTENDS Integers, Sequences, FiniteSets, TLC

VARIABLES
    mem,        \* heap: cell name -> document held in that cell
    conf,       \* get_config_t's argument: the cell of the caller's document
    _conf,      \* get_config_t's local _conf: the cell of the working document
    conf0,      \* the caller's document as it was at call entry
    paths,      \* get_config_t's local paths
    leaves,     \* get_config_t's local leaves
    branches,   \* get_config_t's local branches
    todo,       \* the paths the running reduce(..) has still to visit
    pc,         \* position in get_config_t
    outcome,    \* "running", "returned" or "raised"
    result,     \* the type returned to the caller, None before
    warned,     \* the opts values warn(..) was called with
    leafDone,   \* paths _str_to_spec has rewritten
    applied,    \* path -> number of times _nested_type was invoked on it
    early,      \* paths _nested_type was invoked on before a child was resolved
    rounds,     \* iterations of the while loop completed
    roundStart, \* the working document when the running reduce(..) began
    steps,      \* steps get_config_t has taken
    fieldmap,   \* the ordered field map handed to _spec_to_type
    synth       \* the type _spec_to_type made of fieldmap, None before

vars == <<mem, conf, _conf, conf0, paths, leaves, branches, todo, pc, outcome,
          result, warned, leafDone, applied, early, rounds, roundStart,
          steps, fieldmap, synth>>

(***************************************************************************)
(* Bounds                                                                  *)
(***************************************************************************)
\* nodes of the documents whose keys are all different
MaxNodes == 6
\* nodes of the documents whose keys are drawn from SmallKeys
MaxSmall == 3
\* fields of the field maps handed to _spec_to_type on its own
MaxFields == 3

(***************************************************************************)
(* Python values                                                           *)
(***************************************************************************)
None == [kind |-> "none"]
Str(s) == [kind |-> "str", s |-> s]
IntV(n) == [kind |-> "int", n |-> n]
BoolV(b) == [kind |-> "bool", b |-> b]
SeqV(items) == [kind |-> "seq", items |-> items]
MapV(items) == [kind |-> "map", items |-> items]
\* the value a function returns when it raises
Raise == [kind |-> "raise"]

\* the characters of the strings that are iterated
Chars(s) ==
    CASE s = "bad" -> <<"b", "a", "d">>
      [] s = "" -> <<>>
      [] OTHER -> <<s>>

\* bool(v)
Truthy(v) ==
    CASE v.kind = "none" -> FALSE
      [] v.kind = "str" -> v.s # ""
      [] v.kind = "int" -> v.n # 0
      [] v.kind = "bool" -> v.b
      [] v.kind \in {"seq", "map"} -> v.items # <<>>
      [] OTHER -> TRUE

\* k in m, for a dict m
HasKey(m, k) == \E i \in 1..Len(m.items) : m.items[i][1] = k

\* m[k], for a dict m that has k
Lookup(m, k) ==
    m.items[CHOOSE i \in 1..Len(m.items) : m.items[i][1] = k][2]

\* m.get(k, d)
Get(m, k, d) == IF HasKey(m, k) THEN Lookup(m, k) ELSE d

\* m[k] = v: an existing key keeps its position, a new one goes last
SetKey(m, k, v) ==
    IF HasKey(m, k)
    THEN MapV([i \in 1..Len(m.items) |->
                 IF m.items[i][1] = k THEN <<k, v>> ELSE m.items[i]])
    ELSE MapV(Append(m.items, <<k, v>>))

RECURSIVE DictOf(_, _)
\* dict(items), built on top of the dict acc
DictOf(items, acc) ==
    IF items = <<>> THEN acc
    ELSE DictOf(Tail(items), SetKey(acc, Head(items)[1], Head(items)[2]))

RECURSIVE Concat(_)
\* chain(*seqs), as one sequence
Concat(seqs) ==
    IF seqs = <<>> THEN <<>> ELSE Head(seqs) \o Concat(Tail(seqs))

\* the keys of a path, set(path)
KeySetOf(path) == {path[i] : i \in 1..Len(path)}

\* path[:-1]
Parent(path) == SubSeq(path, 1, Len(path) - 1)

\* p is a proper prefix of q
StrictPrefix(p, q) == Len(p) < Len(q) /\ SubSeq(q, 1, Len(p)) = p

(***************************************************************************)
(* The registries and factories parsers.py imports                         *)
(***************************************************************************)
\* the names NS.types has
KnownTypes == {"int", "List", "conint"}
\* the names NS.validators has
KnownValidators == {"check"}

\* getattr(NS.types, name)
NS_types(name) ==
    IF name.kind = "str" /\ name.s \in KnownTypes
    THEN [kind |-> "type", name |-> name.s, mode |-> "bare", args |-> <<>>]
    ELSE Raise

\* getattr(NS.validators, name)
NS_validators(name) ==
    IF name.kind = "str" /\ name.s \in KnownValidators THEN name ELSE Raise

\* t[params]
TypeSubscript(t, params) ==
    [kind |-> "type", name |-> t.name, mode |-> "param", args |-> params]

\* t(**kwargs)
TypeCall(t, kwargs) ==
    [kind |-> "type", name |-> t.name, mode |-> "kw", args |-> kwargs.items]

\* make_validator(func, key, opts=opts, **params)
make_validator(func, key, opts, params) ==
    MapV(<< <<func.s, [kind |-> "validator", func |-> func.s, key |-> key,
                        opts |-> opts, params |-> params]>> >>)

\* make_dataconfig(f"{key}_t", fields, namespace=ns, bases=bases)
make_dataconfig(key, fields, ns, bases) ==
    [kind |-> "dataconfig", name |-> <<key, "_t">>, fields |-> fields,
     ns |-> ns, bases |-> bases]

(***************************************************************************)
(* parsers.py                                                              *)
(***************************************************************************)
_type_spec ==
    <<"type", "opts", "validator", "validator_opts", "validator_params",
      "root_validator", "default", "id", "doc">>

\* the key remap(..) passes for the root, Python's None
NoneKey == "<None>"

\* str(i) for the indices of the sequences of the model
IdxKey(i) == <<"0", "1", "2", "3">>[i + 1]

\* _is_node testing the last key alone, not the whole path
_is_node_last_key(path, key, value) ==
    key # NoneKey /\ \A t \in 1..Len(_type_spec) : _type_spec[t] # key

_is_node(path, key, value) ==
    IF key = NoneKey THEN FALSE
    ELSE LET full_path == Append(path, key)
         IN  \A t \in 1..Len(_type_spec) :
                 _type_spec[t] \notin KeySetOf(full_path)

\* the (key, value) pairs remap(..) enters a value by: the items of a
\* mapping, the indexed elements of a sequence, nothing for a scalar
Entries(value) ==
    CASE value.kind = "map" -> value.items
      [] value.kind = "seq" ->
            [i \in 1..Len(value.items) |-> <<IdxKey(i - 1), value.items[i]>>]
      [] OTHER -> <<>>

RECURSIVE research(_, _, _)
\* the paths research(conf, query=_is_node) reports at and below one
\* position: path + (key,) wherever the query holds
research(path, key, value) ==
    LET below == IF key = NoneKey THEN path ELSE Append(path, key)
        kids == Entries(value)
    IN  (IF _is_node(path, key, value) THEN {Append(path, key)} ELSE {})
        \cup UNION {research(below, kids[i][1], kids[i][2]) :
                        i \in 1..Len(kids)}

_nodes(doc) == research(<<>>, NoneKey, doc)

_is_leaf(path, ps) ==
    ~ \E q \in ps : path # q /\ KeySetOf(path) \subseteq KeySetOf(q)

_leaves(ps) == {p \in ps : _is_leaf(p, ps)}

\* the glom spec of a path, as the keys glom splits it back into
_path_to_glom_spec(path) == path

\* isinstance(v, Sequence): lists and strings
IsSequence(v) == v.kind \in {"seq", "str"}

\* isinstance(v, dict)
IsDict(v) == v.kind = "map"

\* tuple(v)
TupleOf(v) ==
    IF v.kind = "str" THEN [i \in 1..Len(Chars(v.s)) |-> Str(Chars(v.s)[i])]
    ELSE v.items

_type(value) ==
    LET opts == Get(value, _type_spec[2], None)
        t == NS_types(Lookup(value, _type_spec[1]))
    IN  IF t = Raise THEN Raise
        ELSE IF Truthy(opts) /\ IsSequence(opts)
             THEN TypeSubscript(t, TupleOf(opts))
        ELSE IF Truthy(opts) /\ IsDict(opts)
             THEN TypeCall(t, opts)
        ELSE t

\* the opts values _type calls warn(..) with
_type_warn(value) ==
    LET opts == Get(value, _type_spec[2], None)
        t == NS_types(Lookup(value, _type_spec[1]))
    IN  IF t # Raise /\ ~ (Truthy(opts) /\ IsSequence(opts))
           /\ ~ (Truthy(opts) /\ IsDict(opts)) /\ Truthy(opts)
        THEN {opts} ELSE {}

_validator(key, value) ==
    LET func == NS_validators(Lookup(value, _type_spec[3]))
        k == IF Truthy(Get(value, _type_spec[6], BoolV(FALSE)))
             THEN "" ELSE key
        opts == Get(value, _type_spec[4], MapV(<<>>))
        params == Get(value, _type_spec[5], MapV(<<>>))
    IN  IF func = Raise \/ params.kind # "map" THEN Raise
        ELSE make_validator(func, k, opts, params)

\* k in v: "yes", "no", or "raise" for a v that is no container.  No string
\* of the model has a reserved key as a substring.
PyIn(k, v) ==
    CASE v.kind = "map" -> IF HasKey(v, k) THEN "yes" ELSE "no"
      [] v.kind = "seq" ->
            IF \E i \in 1..Len(v.items) : v.items[i] = Str(k)
            THEN "yes" ELSE "no"
      [] v.kind = "str" -> "no"
      [] OTHER -> "raise"

_str_to_spec(key, value) ==
    LET hasType == PyIn(_type_spec[1], value)
        t == _type(value)
        v1 == IF hasType = "raise" THEN Raise
              ELSE IF hasType = "no" THEN value
              ELSE IF t = Raise THEN Raise
              ELSE SetKey(value, _type_spec[1], t)
        hasVal == IF v1 = Raise THEN "raise" ELSE PyIn(_type_spec[3], v1)
        f == _validator(key, v1)
    IN  IF hasVal = "raise" THEN Raise
        ELSE IF hasVal = "no" THEN v1
        ELSE IF f = Raise THEN Raise
        ELSE SetKey(v1, _type_spec[3], f)

\* the warnings of one _str_to_spec(key, value)
_str_to_spec_warn(value) ==
    IF PyIn(_type_spec[1], value) = "yes" THEN _type_warn(value) ELSE {}

\* the base class _ConfigIO
_ConfigIO == "_ConfigIO"

\* _spec_to_type keeping the order of the map
_spec_to_type_order_kept(items) == items

\* the items of a field map in the order their fields are declared in:
\* those without a default, then those with one
_spec_to_type_order(items) ==
    SelectSeq(items, LAMBDA kv : PyIn(_type_spec[7], kv[2]) = "no")
    \o SelectSeq(items, LAMBDA kv : PyIn(_type_spec[7], kv[2]) = "yes")

\* the tuple glom makes of one (k, v): (k, v["type"]) and, when v has a
\* default, v["default"] after them
_spec_to_type_field(kv) ==
    IF kv[2].kind = "map" /\ HasKey(kv[2], "type")
    THEN IF HasKey(kv[2], "default")
         THEN <<kv[1], Lookup(kv[2], "type"), Lookup(kv[2], "default")>>
         ELSE <<kv[1], Lookup(kv[2], "type")>>
    ELSE Raise

\* the namespace: the items of every field's "validator" dict, chained
_spec_to_type_ns(items) ==
    LET vals == [i \in 1..Len(items) |->
                    Get(items[i][2], "validator", MapV(<<>>))]
    IN  IF \E i \in 1..Len(vals) : vals[i].kind # "map" THEN Raise
        ELSE DictOf(Concat([i \in 1..Len(vals) |-> vals[i].items]),
                    MapV(<<>>))

_spec_to_type(key, value, bases) ==
    IF value.kind # "map" THEN Raise
    ELSE IF \E i \in 1..Len(value.items) :
                PyIn(_type_spec[7], value.items[i][2]) = "raise"
    THEN Raise
    ELSE LET ordered == _spec_to_type_order(value.items)
             fields == [i \in 1..Len(ordered) |->
                           _spec_to_type_field(ordered[i])]
         IN  IF \E i \in 1..Len(fields) : fields[i] = Raise THEN Raise
             ELSE LET ns == _spec_to_type_ns(value.items)
                  IN  IF ns = Raise THEN Raise
                      ELSE make_dataconfig(key, fields, ns, bases)

_nested_type(key, value) ==
    LET t == _spec_to_type(key, value, <<>>)
        v == _str_to_spec(key, value)
    IN  IF t = Raise THEN Raise
        ELSE IF v = Raise THEN Raise
        ELSE MapV(<< <<"type", t>>, <<"validator", v>> >>)

\* target[key], as glom reads it
Access(target, key) ==
    CASE target.kind = "map" /\ HasKey(target, key) -> Lookup(target, key)
      [] target.kind = "seq"
         /\ (\E i \in 1..Len(target.items) : IdxKey(i - 1) = key) ->
            target.items[CHOOSE i \in 1..Len(target.items) :
                             IdxKey(i - 1) = key]
      [] OTHER -> Raise

RECURSIVE glom(_, _)
\* glom(target, spec): the value at a path, Raise for a PathAccessError
glom(target, spec) ==
    IF spec = <<>> THEN target
    ELSE LET inner == Access(target, Head(spec))
         IN  IF inner = Raise THEN Raise ELSE glom(inner, Tail(spec))

\* target[key] = val, as glom assigns it
Store(target, key, val) ==
    IF target.kind = "seq"
    THEN SeqV([i \in 1..Len(target.items) |->
                  IF IdxKey(i - 1) = key THEN val ELSE target.items[i]])
    ELSE SetKey(target, key, val)

RECURSIVE Assign(_, _, _)
\* glom(target, Assign(spec, val)): target with val at the path
Assign(target, spec, val) ==
    IF Len(spec) = 1 THEN Store(target, spec[1], val)
    ELSE Store(target, Head(spec),
               Assign(Access(target, Head(spec)), Tail(spec), val))

\* Invoke(func).constants(key).specs(..): the call of the function that
\* _update_inplace was given, named by func
Invoke(func, key, value) ==
    IF func = "_str_to_spec" THEN _str_to_spec(key, value)
    ELSE _nested_type(key, value)

\* update_inplace as bound to func: the document with func(path[-1], value)
\* assigned at path, Raise when the lookup or func raises
update_inplace(func, doc, path) ==
    LET glom_spec == _path_to_glom_spec(path)
        value == glom(doc, glom_spec)
        _config_t == Invoke(func, path[Len(path)], value)
    IN  IF value = Raise THEN Raise
        ELSE IF _config_t = Raise THEN Raise
        ELSE Assign(doc, glom_spec, _config_t)

\* no copy: the working document is the caller's
deepcopy_none(cell) == cell

\* the cell deepcopy(conf) puts its copy in
deepcopy(cell) == "work"

(***************************************************************************)
(* The documents get_config_t is called with.  A shape is a forest of      *)
(* numbered nodes given by its parent sequence, in preorder: the parent of *)
(* node i is 0 (the document root) or a node on the path to node i - 1.    *)
(***************************************************************************)
RECURSIVE AncSelf(_, _)
AncSelf(s, i) == {i} \cup (IF s[i] = 0 THEN {} ELSE AncSelf(s, s[i]))

RECURSIVE ShapesOf(_)
ShapesOf(n) ==
    IF n = 0 THEN {<<>>}
    ELSE IF n = 1 THEN {<<0>>}
    ELSE UNION {{Append(s, p) : p \in {0} \cup AncSelf(s, n - 1)} :
                   s \in ShapesOf(n - 1)}

ShapesUpTo(n) == UNION {ShapesOf(m) : m \in 0..n}

\* the children of node i, in document order
Kids(s, i) == SelectSeq([j \in 1..Len(s) |-> j], LAMBDA j : s[j] = i)

RECURSIVE BuildNode(_, _, _, _)
\* the value at node i: its rule when it has no children, else the mapping
\* of its children
BuildNode(s, keyOf, ruleOf, i) ==
    LET kids == Kids(s, i)
    IN  IF kids = <<>> /\ i # 0 THEN ruleOf[i]
        ELSE MapV([n \in 1..Len(kids) |->
                     <<keyOf[kids[n]],
                       BuildNode(s, keyOf, ruleOf, kids[n])>>])

KeyName == <<"a", "b", "c", "d", "e", "f", "g", "h">>
SmallKeys == {"x", "y"}

PlainRule == MapV(<< <<"type", Str("int")>> >>)

\* the leaf rules one leaf of a small document may have instead
Rules ==
    { MapV(<< <<"type", Str("nope")>> >>),
      MapV(<< <<"type", Str("int")>>, <<"validator", Str("nope")>> >>),
      MapV(<< <<"type", Str("int")>>, <<"validator", Str("check")>> >>),
      MapV(<< <<"type", Str("int")>>, <<"validator", Str("check")>>,
              <<"root_validator", BoolV(TRUE)>> >>),
      MapV(<< <<"type", Str("int")>>, <<"default", Str("d")>> >>),
      MapV(<< <<"type", Str("List")>>, <<"opts", SeqV(<<Str("int")>>)>> >>),
      MapV(<< <<"type", Str("conint")>>,
              <<"opts", MapV(<< <<"gt", IntV(0)>> >>)>> >>),
      MapV(<< <<"type", Str("int")>>, <<"opts", Str("bad")>> >>),
      MapV(<< <<"type", Str("int")>>, <<"opts", Str("")>> >>),
      MapV(<< <<"type", Str("int")>>, <<"opts", IntV(5)>> >>),
      MapV(<< <<"type", Str("int")>>, <<"opts", IntV(0)>> >>),
      MapV(<< <<"type", Str("int")>>, <<"opts", BoolV(FALSE)>> >>),
      MapV(<< <<"type", Str("int")>>, <<"opts", SeqV(<<>>)>> >>),
      MapV(<< <<"type", Str("int")>>, <<"opts", MapV(<<>>)>> >>) }

\* documents of up to MaxNodes nodes whose keys are all different and
\* whose leaves are all the plain rule
DocsDistinct ==
    {BuildNode(s, KeyName, [i \in 1..Len(s) |-> PlainRule], 0) :
        s \in ShapesUpTo(MaxNodes)}

\* no two children of one mapping have the same key
SiblingsDiffer(s, keyOf) ==
    \A i, j \in 1..Len(s) : (i # j /\ s[i] = s[j]) => keyOf[i] # keyOf[j]

\* documents of up to MaxSmall nodes whose keys are drawn from SmallKeys,
\* so that a key may occur in several places, and of whose leaves at most
\* one has a rule other than the plain one
DocsSmall ==
    UNION {
      UNION {
        {BuildNode(s, keyOf, [i \in 1..Len(s) |-> PlainRule], 0)}
        \cup {BuildNode(s, keyOf,
                        [i \in 1..Len(s) |-> IF i = l THEN r ELSE PlainRule],
                        0) :
                 l \in {i \in 1..Len(s) : Kids(s, i) = <<>>}, r \in Rules} :
        keyOf \in {k \in [1..Len(s) -> SmallKeys] : SiblingsDiffer(s, k)}} :
      s \in ShapesUpTo(MaxSmall)}

Docs == DocsDistinct \cup DocsSmall

(***************************************************************************)
(* get_config_t                                                            *)
(***************************************************************************)
\* the working document
Work == mem[_conf]

\* the node paths that are direct children of p
ChildPaths(p) == {c \in paths : Parent(c) = p}

Init ==
    /\ mem = [input |-> None, work |-> None]
    /\ conf0 = None
    /\ conf = "input"
    /\ _conf = "unbound"
    /\ paths = {}
    /\ leaves = {}
    /\ branches = {}
    /\ todo = {}
    /\ pc = "idle"
    /\ outcome = "running"
    /\ result = None
    /\ warned = {}
    /\ leafDone = {}
    /\ applied = <<>>
    /\ early = {}
    /\ rounds = 0
    /\ roundStart = None
    /\ steps = 0
    /\ fieldmap = None
    /\ synth = None

\* get_config_t(d), up to the start of the first reduce(..):
\* paths = _nodes(conf); leaves = _leaves(paths); deepcopy(conf)
Call(d) ==
    /\ pc = "idle"
    /\ conf0' = d
    /\ LET heap == [mem EXCEPT ![conf] = d]
       IN  /\ paths' = _nodes(heap[conf])
           /\ mem' = [heap EXCEPT ![deepcopy(conf)] = heap[conf]]
           /\ roundStart' = heap[conf]
    /\ leaves' = _leaves(paths')
    /\ _conf' = deepcopy(conf)
    /\ todo' = leaves'
    /\ applied' = [p \in paths' |-> 0]
    /\ pc' = "leaf_round"
    /\ steps' = steps + 1
    /\ UNCHANGED <<conf, branches, outcome, result, warned, leafDone, early,
                   rounds, fieldmap, synth>>

\* one step of reduce(_update_inplace(_str_to_spec), leaves, ..): the next
\* leaf of the set, in whatever order the set yields it
LeafStep ==
    /\ pc = "leaf_round" /\ outcome = "running"
    /\ \E p \in todo :
        LET new == update_inplace("_str_to_spec", Work, p)
            value == glom(Work, _path_to_glom_spec(p))
        IN  /\ todo' = todo \ {p}
            /\ warned' = warned \cup
                   (IF value = Raise THEN {} ELSE _str_to_spec_warn(value))
            /\ IF new = Raise
               THEN /\ outcome' = "raised"
                    /\ UNCHANGED <<mem, leafDone>>
               ELSE /\ mem' = [mem EXCEPT ![_conf] = new]
                    /\ leafDone' = leafDone \cup {p}
                    /\ UNCHANGED outcome
    /\ steps' = steps + 1
    /\ UNCHANGED <<conf, _conf, conf0, paths, leaves, branches, pc, result,
                   applied, early, rounds, roundStart, fieldmap, synth>>

\* where the loop goes with a new value of branches: into another reduce
\* while branches is not empty, to the return statement when it is
Loop(bs) ==
    /\ branches' = bs
    /\ todo' = bs
    /\ roundStart' = Work
    /\ pc' = IF bs # {} THEN "branch_round" ELSE "root"

\* the leaves are done: branches = _leaves(paths - leaves)
FirstRing ==
    /\ pc = "leaf_round" /\ outcome = "running" /\ todo = {}
    /\ Loop(_leaves(paths \ leaves))
    /\ steps' = steps + 1
    /\ UNCHANGED <<mem, conf, _conf, conf0, paths, leaves, outcome, result,
                   warned, leafDone, applied, early, rounds, fieldmap, synth>>

\* one step of reduce(_update_inplace(_nested_type), branches, _conf)
BranchStep ==
    /\ pc = "branch_round" /\ outcome = "running"
    /\ \E p \in todo :
        LET new == update_inplace("_nested_type", Work, p)
        IN  /\ todo' = todo \ {p}
            /\ applied' = [applied EXCEPT ![p] = @ + 1]
            /\ early' = IF \E c \in ChildPaths(p) :
                               c \notin leafDone /\ applied[c] = 0
                        THEN early \cup {p} ELSE early
            /\ IF new = Raise
               THEN outcome' = "raised" /\ UNCHANGED mem
               ELSE mem' = [mem EXCEPT ![_conf] = new] /\ UNCHANGED outcome
    /\ steps' = steps + 1
    /\ UNCHANGED <<conf, _conf, conf0, paths, leaves, branches, pc, result,
                   warned, leafDone, rounds, roundStart, fieldmap, synth>>

\* the round's branches again, path for path[:-1]
ParentsOf_same(bs) == {q \in bs : Parent(q) # <<>>}

\* the parents of the round's branches
ParentsOf(bs) == {Parent(p) : p \in {q \in bs : Parent(q) # <<>>}}

\* the round is done: branches = {path[:-1] for path in branches if path[:-1]}
NextRing ==
    /\ pc = "branch_round" /\ outcome = "running" /\ todo = {}
    /\ Loop(ParentsOf(branches))
    /\ rounds' = rounds + 1
    /\ steps' = steps + 1
    /\ UNCHANGED <<mem, conf, _conf, conf0, paths, leaves, outcome, result,
                   warned, leafDone, applied, early, fieldmap, synth>>

\* return _spec_to_type("config", _conf, bases=(_ConfigIO,))
RootSynth ==
    /\ pc = "root" /\ outcome = "running"
    /\ LET t == _spec_to_type("config", Work, <<_ConfigIO>>)
       IN  IF t = Raise
           THEN outcome' = "raised" /\ UNCHANGED result
           ELSE outcome' = "returned" /\ result' = t
    /\ pc' = "done"
    /\ steps' = steps + 1
    /\ UNCHANGED <<mem, conf, _conf, conf0, paths, leaves, branches, todo,
                   warned, leafDone, applied, early, rounds, roundStart,
                   fieldmap, synth>>

Next ==
    \/ \E d \in Docs : Call(d)
    \/ LeafStep
    \/ FirstRing
    \/ BranchStep
    \/ NextRing
    \/ RootSynth

Spec == Init /\ [][Next]_vars

\* get_config_t has returned or raised
Finished == pc = "done" \/ outcome = "raised"

\* the next step of a call that has neither returned nor raised
Advance == ~ Finished /\ steps' = steps + 1

\* get_config_t is one synchronous call that nothing suspends: it keeps
\* taking steps until it has returned or raised.  Every step of Next is a
\* step of Advance, and one is possible exactly while ~Finished.
FairSpec == Spec /\ WF_steps(Advance)

(***************************************************************************)
(* _spec_to_type on its own: one call on an ordered field map              *)
(***************************************************************************)
IntType == NS_types(Str("int"))

\* a resolved field without a default, and one with a default
FieldRules ==
    { MapV(<< <<"type", IntType>> >>),
      MapV(<< <<"type", IntType>>, <<"default", Str("d")>> >>) }

FieldKeys == {KeyName[i] : i \in 1..MaxFields}

\* the sequences of up to MaxFields fields with different keys
FieldMaps ==
    UNION {{MapV(m) : m \in {f \in [1..n -> FieldKeys \X FieldRules] :
                                \A i, j \in 1..n :
                                    i # j => f[i][1] # f[j][1]}} :
              n \in 0..MaxFields}

SynthInit ==
    /\ fieldmap \in FieldMaps
    /\ synth = None
    /\ pc = "synth"
    /\ mem = [input |-> None, work |-> None]
    /\ conf = "input"
    /\ _conf = "unbound"
    /\ conf0 = None
    /\ paths = {}
    /\ leaves = {}
    /\ branches = {}
    /\ todo = {}
    /\ outcome = "running"
    /\ result = None
    /\ warned = {}
    /\ leafDone = {}
    /\ applied = <<>>
    /\ early = {}
    /\ rounds = 0
    /\ roundStart = None
    /\ steps = 0

\* synth = _spec_to_type("k", fieldmap)
SynthCall ==
    /\ pc = "synth"
    /\ synth' = _spec_to_type("k", fieldmap, <<>>)
    /\ pc' = "synth_done"
    /\ UNCHANGED <<mem, conf, _conf, conf0, paths, leaves, branches, todo,
                   outcome, result, warned, leafDone, applied, early, rounds,
                   roundStart, steps, fieldmap>>

SynthNext == SynthCall

SynthSpec == SynthInit /\ [][SynthNext]_vars

(***************************************************************************)
(* Properties                                                              *)
(***************************************************************************)
\* no path of ps has a key twice
NonRepeating(ps) == \A p \in ps : Cardinality(KeySetOf(p)) = Len(p)

\* the paths of ps that no path of ps extends
Childless(ps) == {p \in ps : ~ \E q \in ps : StrictPrefix(p, q)}

\* the length of the longest path of ps, 0 for none
Longest(ps) ==
    IF ps = {} THEN 0 ELSE CHOOSE n \in {Len(p) : p \in ps} :
                              \A p \in ps : Len(p) <= n

RECURSIVE PathsOf(_)
\* every key/index path of a value, the empty one included
PathsOf(value) ==
    {<<>>} \cup UNION {{<<Entries(value)[i][1]>> \o q :
                           q \in PathsOf(Entries(value)[i][2])} :
                       i \in 1..Len(Entries(value))}

Reserved ==
    {"type", "opts", "validator", "validator_opts", "validator_params",
     "root_validator", "default", "id", "doc"}

\* C1: in a document whose paths use non-repeating keys, _nested_type is
\* applied to a branch path only after every node path that is its direct
\* child has been resolved, whatever the order a round's paths come in.
BottomUp == NonRepeating(paths) => early = {}

\* C2: in a document whose paths use non-repeating keys, the leaves are
\* exactly the node paths that no node path extends, and every other node
\* path has a node path extending it.
LeavesAreChildless ==
    (pc # "idle" /\ NonRepeating(paths)) =>
        /\ leaves = Childless(paths)
        /\ \A b \in paths \ leaves : \E q \in paths : StrictPrefix(b, q)

\* C3: the fields of the type _spec_to_type makes are the fields of the
\* map, each once: no field with a default comes before one without, and two
\* fields of the same group keep the order they were declared in.
FieldPos(k) == CHOOSE i \in 1..Len(fieldmap.items) : fieldmap.items[i][1] = k

StablePartition ==
    pc = "synth_done" =>
        LET inp == fieldmap.items
            out == synth.fields
        IN  /\ synth.kind = "dataconfig"
            /\ Len(out) = Len(inp)
            /\ \A i \in 1..Len(inp) :
                   Cardinality({j \in 1..Len(out) : out[j][1] = inp[i][1]}) = 1
            /\ \A j \in 1..Len(out) :
                   (Len(out[j]) = 3) <=> HasKey(inp[FieldPos(out[j][1])][2],
                                                "default")
            /\ \A i, j \in 1..Len(out) :
                   (i < j) => ~ (Len(out[i]) = 3 /\ Len(out[j]) = 2)
            /\ \A i, j \in 1..Len(out) :
                   (i < j /\ Len(out[i]) = Len(out[j])) =>
                       FieldPos(out[i][1]) < FieldPos(out[j][1])

\* a field with a default declared before one without has been synthesized
StablePartitionWitness ==
    /\ pc = "synth_done"
    /\ Len(fieldmap.items) = 3
    /\ HasKey(fieldmap.items[1][2], "default")
    /\ ~ HasKey(fieldmap.items[2][2], "default")
    /\ synth.kind = "dataconfig"
    /\ synth.fields[1][1] = fieldmap.items[2][1]

\* C4: a resolved leaf's type is parametrized when its opts is a
\* sequence, keyword-constructed when its opts is a mapping, and the bare
\* type with a warning when its opts is any other value; nothing else warns.
\* Stated for the documents whose paths use non-repeating keys and for the
\* opts values that are not empty, zero or false.
OptsShapeDecides ==
    (pc = "leaf_round" /\ NonRepeating(paths)) =>
      \A p \in leafDone :
        LET rule == glom(conf0, p)
            t == Lookup(glom(Work, p), "type")
        IN  (rule # Raise /\ HasKey(rule, "type")) =>
                IF ~ HasKey(rule, "opts")
                THEN t.mode = "bare" /\ warned = {}
                ELSE LET opts == Lookup(rule, "opts")
                     IN  Truthy(opts) =>
                         CASE opts.kind = "seq" ->
                                 t.mode = "param" /\ opts \notin warned
                           [] opts.kind = "map" ->
                                 t.mode = "kw" /\ opts \notin warned
                           [] OTHER -> t.mode = "bare" /\ opts \in warned

\* C5: _nodes returns exactly the non-empty paths of the document that hold
\* no reserved key; the root's entry is not among them and every non-empty
\* prefix of a node path is a node path.
NodesAreUnreservedPaths ==
    pc # "idle" =>
        /\ paths = {p \in PathsOf(conf0) :
                       p # <<>> /\ KeySetOf(p) \cap Reserved = {}}
        /\ \A p \in paths : p # <<>> /\ NoneKey \notin KeySetOf(p)
        /\ \A p \in paths : Len(p) > 1 => Parent(p) \in paths

\* a document with keys below a reserved key has been classified
NodesWitness ==
    /\ pc # "idle"
    /\ paths # {}
    /\ \E p \in PathsOf(conf0) :
          /\ Len(p) >= 2
          /\ p[Len(p)] \notin Reserved
          /\ KeySetOf(p) \cap Reserved # {}

\* the rule at a leaf names a type or a validator no registry has
NamesUnknown(rule) ==
    \/ HasKey(rule, "type") /\ NS_types(Lookup(rule, "type")) = Raise
    \/ HasKey(rule, "validator")
       /\ NS_validators(Lookup(rule, "validator")) = Raise

\* C6: when a leaf of the document names an unknown type or validator,
\* nothing is returned, and get_config_t does not get past its leaf round:
\* no branch is folded and the root is not synthesized.  Stated for the
\* documents whose paths use non-repeating keys.
UnknownNameFailsInLeafRound ==
    (pc # "idle" /\ NonRepeating(paths)
     /\ \E p \in Childless(paths) : NamesUnknown(glom(conf0, p))) =>
        /\ outcome # "returned"
        /\ result = None
        /\ pc = "leaf_round"
        /\ \A p \in paths : applied[p] = 0

\* C7: the caller's document is at every step what it was at call entry.
InputUntouched == mem[conf] = conf0

\* a run has returned after rewriting its working document in the leaf
\* round and in a branch round
InputUntouchedWitness ==
    /\ outcome = "returned"
    /\ rounds >= 1
    /\ Work # conf0
    /\ mem[conf] = conf0

\* the node paths that are not leaves of the document
BranchPaths == paths \ Childless(paths)

\* C8: in a document whose paths use non-repeating keys, _nested_type is
\* applied to no branch path twice, and to every branch path once by the
\* time the root is synthesized.
BranchesOnce ==
    (pc # "idle" /\ NonRepeating(paths)) =>
        /\ \A p \in BranchPaths : applied[p] <= 1
        /\ pc \in {"root", "done"} => \A p \in BranchPaths : applied[p] = 1

RECURSIVE ReduceLeaves(_, _)
\* reduce(_update_inplace(_str_to_spec), ps, doc) in one order of ps
ReduceLeaves(doc, ps) ==
    IF ps = {} \/ doc = Raise THEN doc
    ELSE LET p == CHOOSE q \in ps : TRUE
         IN  ReduceLeaves(update_inplace("_str_to_spec", doc, p), ps \ {p})

RECURSIVE ReduceBranches(_, _)
\* reduce(_update_inplace(_nested_type), ps, doc) in one order of ps
ReduceBranches(doc, ps) ==
    IF ps = {} \/ doc = Raise THEN doc
    ELSE LET p == CHOOSE q \in ps : TRUE
         IN  ReduceBranches(update_inplace("_nested_type", doc, p), ps \ {p})

\* what the running round makes of the document in that one order
RoundResult ==
    IF pc = "leaf_round" THEN ReduceLeaves(roundStart, leaves)
    ELSE ReduceBranches(roundStart, branches)

\* the paths of the running round
RoundPaths == IF pc = "leaf_round" THEN leaves ELSE branches

\* C9: no path of a round is an ancestor of another path of that round, and
\* a round leaves the working document the same, or raises, in every order
\* its paths are processed in.
RoundOrderIrrelevant ==
    pc \in {"leaf_round", "branch_round"} =>
        /\ \A p, q \in RoundPaths : ~ StrictPrefix(p, q)
        /\ (outcome = "running" /\ todo = {}) => Work = RoundResult
        /\ outcome = "raised" => RoundResult = Raise

====
